---- MODULE Spec2Model ----
(***************************************************************************)
(* Model of the particle fluid solver of FLUID-SIM (src/src/grid.hpp,      *)
(* src/src/grid.cpp): struct Grille, CreateGrid, UpdateGrid and            *)
(* ComputeAverageVelocity.                                                 *)
(*                                                                         *)
(* Numbers.  The program computes in IEEE-754 binary32.  A float is        *)
(* modelled as a fixed-point integer counting units of 1/ONE (ONE = 10000, *)
(* so that epsilon = 1e-4f is one unit), with the three special values of  *)
(* the format: +Inf and -Inf (a result whose magnitude exceeds FLT_MAX)    *)
(* and NaN (Inf - Inf, 0 * Inf, ...).  Every comparison with NaN is false, *)
(* as in C++.  Rounding is truncation of the magnitude, which like the     *)
(* IEEE rounding is symmetric in the sign.  There is no signed zero.       *)
(*                                                                         *)
(* Parallelism.  Every "#pragma omp parallel for collapse(3)" loop is a    *)
(* pass whose work units are the lattice cells (i,j,k).  A unit is started *)
(* by some worker and later finished; units of one pass are in flight      *)
(* together in any order, and the implicit barrier that ends an OpenMP     *)
(* parallel region separates the passes.                                   *)
(***************************************************************************)
EXTENDS Integers, Sequences, FiniteSets, TLC

(***************************************************************************)
(* Bounds of the model.                                                    *)
(***************************************************************************)
\* Largest finite magnitude, in units (stands for FLT_MAX of binary32).
FLT_MAX == 400000000
\* Number of UpdateGrid calls explored.
MaxSteps == 2

(***************************************************************************)
(* The float format.                                                       *)
(***************************************************************************)
ONE == 10000
INF == FLT_MAX + 1
NAN == FLT_MAX + 2

IsNaN(a) == a = NAN
IsFinite(a) == a # NAN /\ a # INF /\ a # -INF
Abs(a) == IF a < 0 THEN -a ELSE a
Sgn(a) == IF a < 0 THEN -1 ELSE 1

\* Overflow of a finite result to an infinity.
Sat(a) == IF a > FLT_MAX THEN INF ELSE IF a < -FLT_MAX THEN -INF ELSE a

\* int -> float conversion, float(n).
IntToFloat(n) == Sat(n * ONE)

\* <<q, r>> with a*b = q*ONE + r and 0 <= r < ONE, for finite a, b >= 0,
\* computed without leaving 32-bit integers; q is INF when it exceeds FLT_MAX.
MulQR(a, b) ==
    LET a1 == a \div ONE
        a0 == a % ONE
        b1 == b \div ONE
        b0 == b % ONE
    IN  IF a1 > 0 /\ b1 > (FLT_MAX \div ONE) \div a1 THEN <<INF, 0>>
        ELSE <<Sat(a1 * b1 * ONE + a1 * b0 + a0 * b1 + (a0 * b0) \div ONE),
               (a0 * b0) % ONE>>

\* One step of the long division by b: quotient and remainder qr scaled by f.
DivStep(qr, f, b) == <<qr[1] * f + (qr[2] * f) \div b, (qr[2] * f) % b>>

\* The integer part of a*ONE / b, for finite a >= 0 and b > 0 (ONE = 4*4*5*5*5*5);
\* INF when it exceeds FLT_MAX.
DivQ(a, b) ==
    IF a \div b > FLT_MAX \div ONE THEN INF
    ELSE Sat(DivStep(DivStep(DivStep(DivStep(DivStep(DivStep(
             <<a \div b, a % b>>, 4, b), 4, b), 5, b), 5, b), 5, b), 5, b)[1])

\* Unary minus.
Neg(a) == IF a = NAN THEN NAN ELSE -a

\* a + b
Add(a, b) ==
    IF a = NAN \/ b = NAN THEN NAN
    ELSE IF a = INF THEN (IF b = -INF THEN NAN ELSE INF)
    ELSE IF a = -INF THEN (IF b = INF THEN NAN ELSE -INF)
    ELSE IF b = INF \/ b = -INF THEN b
    ELSE Sat(a + b)

\* a - b
Sub(a, b) == Add(a, Neg(b))

\* a * b
Mul(a, b) ==
    IF a = NAN \/ b = NAN THEN NAN
    ELSE IF ~IsFinite(a) \/ ~IsFinite(b)
    THEN (IF a = 0 \/ b = 0 THEN NAN ELSE Sgn(a) * Sgn(b) * INF)
    ELSE Sgn(a) * Sgn(b) * MulQR(Abs(a), Abs(b))[1]

\* a / b
Div(a, b) ==
    IF a = NAN \/ b = NAN THEN NAN
    ELSE IF ~IsFinite(a) THEN (IF ~IsFinite(b) THEN NAN ELSE Sgn(a) * Sgn(b) * INF)
    ELSE IF ~IsFinite(b) THEN 0
    ELSE IF b = 0 THEN (IF a = 0 THEN NAN ELSE Sgn(a) * INF)
    ELSE Sgn(a) * Sgn(b) * DivQ(Abs(a), Abs(b))

\* The comparisons of C++ on floats: false as soon as an operand is NaN.
Lt(a, b) == a # NAN /\ b # NAN /\ a < b
Gt(a, b) == Lt(b, a)
Le(a, b) == a # NAN /\ b # NAN /\ a <= b

\* Whether m*m <= a*ONE.
SqrtFits(m, a) ==
    LET sq == MulQR(m, m) IN sq[1] < a \/ (sq[1] = a /\ sq[2] = 0)

\* The decimal digits of the root from place p down, r being the digits
\* found so far: the largest m with m*m <= a*ONE.
RECURSIVE SqrtDigits(_, _, _)
SqrtDigits(a, r, p) ==
    IF p = 0 THEN r
    ELSE SqrtDigits(a,
                    r + p * (CHOOSE d \in 0 .. 9 :
                                /\ SqrtFits(r + d * p, a)
                                /\ (d = 9 \/ ~SqrtFits(r + (d + 1) * p, a))),
                    p \div 10)

\* std::sqrt
Sqrt(a) ==
    IF a = NAN \/ a < 0 THEN NAN
    ELSE IF a = INF THEN INF
    ELSE SqrtDigits(a, 0, 1000000)

\* fmin(a, b): the other operand when one is NaN.
Fmin(a, b) == IF a = NAN THEN b ELSE IF b = NAN THEN a ELSE IF b < a THEN b ELSE a

\* std::clamp(v, lo, hi) = (v < lo) ? lo : (hi < v) ? hi : v
Clamp(v, lo, hi) == IF Lt(v, lo) THEN lo ELSE IF Lt(hi, v) THEN hi ELSE v

(***************************************************************************)
(* The constants of UpdateGrid, in units of 1/ONE.                         *)
(***************************************************************************)
g == -98100
nu == 13000
radius == 10000
h == 12000
stiffness == 6000
wallStiffness == 20000
wallDamping == 8000
epsilon == 1
minX == 0
maxX == 200000
minY == 0
maxY == 600000
minZ == 0
maxZ == 200000

(***************************************************************************)
(* struct Vertex, struct Grille and the lattice.                           *)
(***************************************************************************)
\* A value-initialised Vertex.
ZeroVertex == [x |-> 0, y |-> 0, z |-> 0, r |-> 0, g |-> 0, b |-> 0]

\* The index triples (i,j,k) of a three-dimensional field of the given sizes.
Cells(n1, n2, n3) == (0 .. n1 - 1) \X (0 .. n2 - 1) \X (0 .. n3 - 1)

idx3Flat(i, j, k, ny_, nz_) == i * ny_ + j * nz_ + k
idx3(i, j, k, ny_, nz_) == i * (ny_ * nz_) + j * nz_ + k

\* The n-th triple visited by "for i, for j, for k" over (ny_, nz_).
CellAt(n, ny_, nz_) == <<n \div (ny_ * nz_), (n \div nz_) % ny_, n % nz_>>

\* A field as Grille::Grille dimensions it: resize(nx, (ny, (nz, 0.0f))).
FieldSwapped(n1, n2, n3) == [c \in Cells(n1, n3, n2) |-> 0]
Field(n1, n2, n3) == [c \in Cells(n1, n2, n3) |-> 0]

\* The constructor: no vertex yet, eight zeroed fields.
Grille(nx_, ny_, nz_) ==
    [nx |-> nx_, ny |-> ny_, nz |-> nz_,
     vertices |-> [n \in {} |-> ZeroVertex],
     vx |-> Field(nx_, ny_, nz_), vy |-> Field(nx_, ny_, nz_),
     vz |-> Field(nx_, ny_, nz_), ax |-> Field(nx_, ny_, nz_),
     ay |-> Field(nx_, ny_, nz_), az |-> Field(nx_, ny_, nz_),
     pressure |-> Field(nx_, ny_, nz_), div |-> Field(nx_, ny_, nz_)]

\* grid.vertices.resize(n): n value-initialised vertices.
ResizeVertices(gr, n) == [gr EXCEPT !.vertices = [m \in 0 .. n - 1 |-> ZeroVertex]]

GridCells(gr) == Cells(gr.nx, gr.ny, gr.nz)
GridN(gr) == gr.nx * gr.ny * gr.nz
Id(gr, c) == idx3(c[1], c[2], c[3], gr.ny, gr.nz)

\* The body of CreateGrid's loop for cell c.
CreateUnit(gr, c, scale) ==
    [gr EXCEPT !.vertices[Id(gr, c)] =
        [x |-> Mul(IntToFloat(c[1]), scale),
         y |-> Add(Mul(IntToFloat(c[2]), scale), IntToFloat(5)),
         z |-> Mul(IntToFloat(c[3]), scale),
         r |-> 0, g |-> 0, b |-> 0]]

RECURSIVE CreateLoop(_, _, _)
CreateLoop(gr, n, scale) ==
    IF n = GridN(gr) THEN gr
    ELSE CreateLoop(CreateUnit(gr, CellAt(n, gr.ny, gr.nz), scale), n + 1, scale)

\* CreateGrid, its loop run in index order.
CreateGrid(rx, ry, rz, scale) ==
    CreateLoop(ResizeVertices(Grille(rx, ry, rz), rx * ry * rz), 0, scale)

(***************************************************************************)
(* UpdateGrid: the body of each pass's loop for one cell c.  A body yields *)
(* the grid after it ran, the locations it read (rd) and wrote (wr), a     *)
(* location being <<field, index>>, and the locals the properties use.     *)
(***************************************************************************)
\* restDensity of UpdateGrid.
RestDensity(gr) ==
    Div(Mul(Mul(Sub(maxX, minX), Sub(maxY, minY)), Sub(maxZ, minZ)),
        IntToFloat(GridN(gr)))

PosLocs(n) == {<<"x", n>>, <<"y", n>>, <<"z", n>>}
ColLocs(n) == {<<"r", n>>, <<"g", n>>, <<"b", n>>}
VelLocs(c) == {<<"vx", c>>, <<"vy", c>>, <<"vz", c>>}
AccLocs(c) == {<<"ax", c>>, <<"ay", c>>, <<"az", c>>}

\* PHASE 0: the acceleration reset.
Phase0Unit(gr, c) ==
    [grid |-> [gr EXCEPT !.ax[c] = 0, !.ay[c] = g, !.az[c] = 0],
     rd |-> {}, wr |-> AccLocs(c)]

\* dx*dx + dy*dy + dz*dz
Norm2(dx, dy, dz) == Add(Add(Mul(dx, dx), Mul(dy, dy)), Mul(dz, dz))

\* PHASE 1: what a neighbour at squared distance r2 adds to the density.
Square(q) == Mul(q, q)
DensityKernelNoCutoff(r2) ==
    IF Gt(r2, 0) THEN Square(Sub(ONE, Div(Sqrt(r2), h))) ELSE 0
DensityKernel(r2) ==
    IF Gt(r2, 0) /\ Lt(r2, Mul(h, h))
    THEN Square(Sub(ONE, Div(Sqrt(r2), h)))
    ELSE 0

\* What the neighbour vertex n_ adds to the density of the vertex v.
DensityTerm(v, n_) ==
    DensityKernel(Norm2(Sub(v.x, n_.x), Sub(v.y, n_.y), Sub(v.z, n_.z)))

RECURSIVE DensityLoop(_, _, _, _)
DensityLoop(gr, c, n, density) ==
    IF n = GridN(gr) THEN density
    ELSE IF CellAt(n, gr.ny, gr.nz) = c THEN DensityLoop(gr, c, n + 1, density)
    ELSE DensityLoop(gr, c, n + 1,
             Add(density, DensityTerm(gr.vertices[Id(gr, c)], gr.vertices[n])))

DensityUnitScatter(gr, c) ==
    [grid |-> [gr EXCEPT !.div = [b \in DOMAIN @ |->
                  IF b = c THEN DensityLoop(gr, c, 0, 0)
                  ELSE Add(@[b], DensityTerm(gr.vertices[Id(gr, b)],
                                             gr.vertices[Id(gr, c)]))]],
     rd |-> UNION {PosLocs(n) : n \in 0 .. GridN(gr) - 1},
     wr |-> {<<"div", b>> : b \in GridCells(gr)}]
DensityUnit(gr, c) ==
    [grid |-> [gr EXCEPT !.div[c] = DensityLoop(gr, c, 0, 0)],
     rd |-> UNION {PosLocs(n) : n \in 0 .. GridN(gr) - 1},
     wr |-> {<<"div", c>>}]

\* PHASE 2.  PA = stiffness * (rhoA - restDensity)
Pressure(rho, restDensity) == Mul(stiffness, Sub(rho, restDensity))

\* fPress = -0.5f * (PA + PB) * q
FPressOneSided(PA, PB, q) == Mul(Mul(-(ONE \div 2), Add(PA, PA)), q)
FPress(PA, PB, q) == Mul(Mul(-(ONE \div 2), Add(PA, PB)), q)

\* The viscosity terms nu * vDiff * q that the neighbour cell cb adds to
\* cell c, and the locations read for them.
ViscosityOfAcc(gr, c, cb, q) ==
    [term |-> <<Mul(Mul(nu, Sub(gr.ax[cb], gr.vx[c])), q),
                Mul(Mul(nu, Sub(gr.ay[cb], gr.vy[c])), q),
                Mul(Mul(nu, Sub(gr.az[cb], gr.vz[c])), q)>>,
     rd |-> AccLocs(cb) \cup VelLocs(c)]
Viscosity(gr, c, cb, q) ==
    [term |-> <<Mul(Mul(nu, Sub(gr.vx[cb], gr.vx[c])), q),
                Mul(Mul(nu, Sub(gr.vy[cb], gr.vy[c])), q),
                Mul(Mul(nu, Sub(gr.vz[cb], gr.vz[c])), q)>>,
     rd |-> VelLocs(cb) \cup VelLocs(c)]

\* The terms of a neighbour that is not skipped: d = B - A, r = |d|.
PairTerms(gr, restDensity, c, cb, n, dx, dy, dz, r, q) ==
    LET fPress == FPress(Pressure(gr.div[c], restDensity),
                         Pressure(gr.div[cb], restDensity), q)
        visc == Viscosity(gr, c, cb, q)
    IN  [skip |-> FALSE,
         press |-> <<Mul(fPress, Div(dx, r)), Mul(fPress, Div(dy, r)),
                     Mul(fPress, Div(dz, r))>>,
         visc |-> visc.term,
         rd |-> PosLocs(n) \cup {<<"div", cb>>} \cup visc.rd]

\* The test "if (r <= 0.0f || r > h) continue;" and what follows it.
PairAt(gr, restDensity, c, cb, n, dx, dy, dz, r) ==
    IF Le(r, 0) \/ Gt(r, h)
    THEN [skip |-> TRUE, rd |-> PosLocs(n)]
    ELSE PairTerms(gr, restDensity, c, cb, n, dx, dy, dz, r, Sub(ONE, Div(r, h)))

Distance(dx, dy, dz) == Sqrt(Norm2(dx, dy, dz))

PairFrom(gr, restDensity, c, cb, n, dx, dy, dz) ==
    PairAt(gr, restDensity, c, cb, n, dx, dy, dz, Distance(dx, dy, dz))

\* One iteration of the neighbour loop of cell c, for the neighbour of
\* index n: whether it is skipped, and the pressure and viscosity terms it
\* adds to the acceleration of c.
Pair(gr, restDensity, c, n) ==
    PairFrom(gr, restDensity, c, CellAt(n, gr.ny, gr.nz), n,
             Sub(gr.vertices[n].x, gr.vertices[Id(gr, c)].x),
             Sub(gr.vertices[n].y, gr.vertices[Id(gr, c)].y),
             Sub(gr.vertices[n].z, gr.vertices[Id(gr, c)].z))

\* The locals after an iteration p for the neighbour cell cb: acc holds
\* ax_local, ay_local, az_local (a), the pressure terms added so far (fp, by
\* neighbour cell) and the locations read (rd).
Accumulate(acc, p, cb) ==
    IF p.skip THEN [acc EXCEPT !.rd = @ \cup p.rd]
    ELSE [a  |-> <<Add(Add(acc.a[1], p.press[1]), p.visc[1]),
                   Add(Add(acc.a[2], p.press[2]), p.visc[2]),
                   Add(Add(acc.a[3], p.press[3]), p.visc[3])>>,
          fp |-> [m \in DOMAIN acc.fp \cup {cb} |->
                     IF m = cb THEN p.press ELSE acc.fp[m]],
          rd |-> acc.rd \cup p.rd]

\* The neighbour loop.
RECURSIVE ForceLoop(_, _, _, _, _)
ForceLoop(gr, restDensity, c, n, acc) ==
    IF n = GridN(gr) THEN acc
    ELSE IF CellAt(n, gr.ny, gr.nz) = c
    THEN ForceLoop(gr, restDensity, c, n + 1, acc)
    ELSE ForceLoop(gr, restDensity, c, n + 1,
             Accumulate(acc, Pair(gr, restDensity, c, n), CellAt(n, gr.ny, gr.nz)))

\* The soft wall of one axis: the acceleration a of a particle at position p.
WallLow(a, p, lo) ==
    IF Lt(Sub(p, radius), lo)
    THEN Add(a, Mul(wallStiffness, Sub(lo, Sub(p, radius))))
    ELSE a
WallHigh(a, p, hi) ==
    IF Gt(Add(p, radius), hi)
    THEN Sub(a, Mul(wallStiffness, Sub(Add(p, radius), hi)))
    ELSE a
Wall(a, p, lo, hi) == WallHigh(WallLow(a, p, lo), p, hi)

\* The blue-to-red gradient of a value t in [0,1].
Gradient(v, t) ==
    [v EXCEPT !.r = t, !.g = Mul((2 * ONE) \div 10, Sub(ONE, t)), !.b = Sub(ONE, t)]

\* Pnorm = clamp((PA - (-restDensity)) / (restDensity * 2.0f), 0, 1)
Pnorm(PA, restDensity) ==
    Clamp(Div(Sub(PA, Neg(restDensity)), Mul(restDensity, 2 * ONE)), 0, ONE)

\* The colour block that ends the Force body.
ForceColour(v, PA, restDensity, pressure, speed) ==
    IF pressure THEN Gradient(v, Pnorm(PA, restDensity))
    ELSE IF ~speed THEN [v EXCEPT !.r = 0, !.g = 0, !.b = IntToFloat(1)]
    ELSE v

\* The end of the Force body: the walls, the stores and the colour.
ForceStore(gr, c, id, PA, restDensity, pressure, speed, acc) ==
    [grid |-> [gr EXCEPT !.ax[c] = Wall(acc.a[1], gr.vertices[id].x, minX, maxX),
                         !.ay[c] = Wall(acc.a[2], gr.vertices[id].y, minY, maxY),
                         !.az[c] = Wall(acc.a[3], gr.vertices[id].z, minZ, maxZ),
                         !.vertices[id] =
                             ForceColour(gr.vertices[id], PA, restDensity,
                                         pressure, speed)],
     rd |-> acc.rd,
     wr |-> AccLocs(c) \cup (IF pressure \/ ~speed THEN ColLocs(id) ELSE {}),
     PA |-> PA, fp |-> acc.fp]

ForceUnit(gr, c, restDensity, pressure, speed) ==
    ForceStore(gr, c, Id(gr, c), Pressure(gr.div[c], restDensity), restDensity,
               pressure, speed,
               ForceLoop(gr, restDensity, c, 0,
                   [a  |-> <<gr.ax[c], gr.ay[c], gr.az[c]>>,
                    fp |-> [m \in {} |-> <<0, 0, 0>>],
                    rd |-> PosLocs(Id(gr, c)) \cup {<<"div", c>>} \cup AccLocs(c)]))

\* PHASE 3.  The hard wall of one axis: <<position, velocity>> after the
\* clamp of a particle at position p with velocity v.
ClampAxis(p, v, lo, hi) ==
    IF Lt(p, Add(lo, epsilon)) THEN <<Add(lo, epsilon), Mul(Neg(v), wallDamping)>>
    ELSE IF Gt(p, Sub(hi, epsilon)) THEN <<Sub(hi, epsilon), Mul(Neg(v), wallDamping)>>
    ELSE <<p, v>>

\* One axis of the integration: v += a * dt; p += v * dt; then the clamp.
Advance(p, v, dt, lo, hi) == ClampAxis(Add(p, Mul(v, dt)), v, lo, hi)
IntegrateAxis(p, v, a, dt, lo, hi) == Advance(p, Add(v, Mul(a, dt)), dt, lo, hi)

\* v_norm = fmin(sqrt(vx*vx + vy*vy + vz*vz) / 15, 1.0f)
VNorm(vx_, vy_, vz_) ==
    Fmin(Div(Sqrt(Norm2(vx_, vy_, vz_)), IntToFloat(15)), ONE)

\* The colour block that ends the Integration body.
IntegrateColourUnlessPressure(v, vx_, vy_, vz_, pressure, speed) ==
    IF speed /\ ~pressure THEN Gradient(v, VNorm(vx_, vy_, vz_)) ELSE v
IntegrateColour(v, vx_, vy_, vz_, pressure, speed) ==
    IF speed THEN Gradient(v, VNorm(vx_, vy_, vz_)) ELSE v

\* The stores of the Integration body: X, Y, Z are <<position, velocity>>.
IntegrateStore(gr, c, id, X, Y, Z, pressure, speed) ==
    [grid |-> [gr EXCEPT !.vx[c] = X[2], !.vy[c] = Y[2], !.vz[c] = Z[2],
                         !.vertices[id] =
                             IntegrateColour([@ EXCEPT !.x = X[1], !.y = Y[1],
                                                       !.z = Z[1]],
                                             X[2], Y[2], Z[2], pressure, speed)],
     rd |-> VelLocs(c) \cup AccLocs(c) \cup PosLocs(id),
     wr |-> VelLocs(c) \cup PosLocs(id) \cup (IF speed THEN ColLocs(id) ELSE {})]

IntegrateUnit(gr, c, dt, pressure, speed) ==
    IntegrateStore(gr, c, Id(gr, c),
        IntegrateAxis(gr.vertices[Id(gr, c)].x, gr.vx[c], gr.ax[c], dt, minX, maxX),
        IntegrateAxis(gr.vertices[Id(gr, c)].y, gr.vy[c], gr.ay[c], dt, minY, maxY),
        IntegrateAxis(gr.vertices[Id(gr, c)].z, gr.vz[c], gr.az[c], dt, minZ, maxZ),
        pressure, speed)

\* A double accumulator of ComputeAverageVelocity is <<special, sum>>: the
\* exact sum of the finite floats added, and 0, INF, -INF or NAN for the
\* non-finite ones (a double does not overflow on a sum of floats).
DoubleAdd(total, a) ==
    IF IsFinite(a) THEN <<total[1], total[2] + a>>
    ELSE <<Add(total[1], a), total[2]>>

\* float(total / count)
DoubleMeanUndivided(total, count) ==
    IF total[1] # 0 THEN total[1] ELSE Sat(total[2])
DoubleMean(total, count) ==
    IF total[1] # 0 THEN total[1]
    ELSE Sat(Sgn(total[2]) * (Abs(total[2]) \div count))

\* ComputeAverageVelocity: the reduction loop from index n on, onto the
\* accumulators total = <<total_vx, total_vy, total_vz>>.
RECURSIVE AverageLoop(_, _, _)
AverageLoop(gr, n, total) ==
    IF n = GridN(gr) THEN total
    ELSE AverageLoop(gr, n + 1,
             <<DoubleAdd(total[1], gr.vx[CellAt(n, gr.ny, gr.nz)]),
               DoubleAdd(total[2], gr.vy[CellAt(n, gr.ny, gr.nz)]),
               DoubleAdd(total[3], gr.vz[CellAt(n, gr.ny, gr.nz)])>>)

\* The return statement: the grid after the call (it takes a const Grille&)
\* and the Vertex returned.
AverageOf(gr, total, count) ==
    [grid |-> gr,
     ret  |-> [ZeroVertex EXCEPT !.x = DoubleMean(total[1], count),
                                 !.y = DoubleMean(total[2], count),
                                 !.z = DoubleMean(total[3], count)]]


ComputeAverageVelocity(gr) ==
    AverageOf(gr, AverageLoop(gr, 0, <<<<0, 0>>, <<0, 0>>, <<0, 0>>>>), GridN(gr))

(***************************************************************************)
(* main.cpp: the globals processInput keeps and what it does with the keys *)
(* it polls.  The camera (keys W, S, A, D) is left out: nothing that is    *)
(* modelled reads it.                                                      *)
(***************************************************************************)
\* The globals as main.cpp initialises them; shouldClose is the flag that
\* glfwSetWindowShouldClose sets and the frame loop tests.
NoInput ==
    [simulation |-> FALSE, pressure |-> FALSE, speed |-> FALSE,
     pressureKeyPressedLast |-> FALSE, speedKeyPressedLast |-> FALSE,
     shouldClose |-> FALSE]

\* if (glfwGetKey(window, GLFW_KEY_ESCAPE) == GLFW_PRESS) ...
EscapeKey(in, pressed) ==
    IF pressed THEN [in EXCEPT !.shouldClose = TRUE] ELSE in

\* if (glfwGetKey(window, GLFW_KEY_SPACE) == GLFW_PRESS) simulation = !simulation;
SpaceKey(in, pressed) ==
    IF pressed THEN [in EXCEPT !.simulation = ~@] ELSE in

\* if (pressureKeyPressed && !pressureKeyPressedLast) { ... }
PressureKeyKeepsSpeed(in, pressureKeyPressed) ==
    IF pressureKeyPressed /\ ~in.pressureKeyPressedLast
    THEN [in EXCEPT !.pressure = ~@]
    ELSE in
PressureKey(in, pressureKeyPressed) ==
    IF pressureKeyPressed /\ ~in.pressureKeyPressedLast
    THEN [in EXCEPT !.pressure = ~@, !.speed = IF @ THEN FALSE ELSE @]
    ELSE in

\* if (speedKeyPressed && !speedKeyPressedLast) { ... }
SpeedKey(in, speedKeyPressed) ==
    IF speedKeyPressed /\ ~in.speedKeyPressedLast
    THEN [in EXCEPT !.speed = ~@, !.pressure = IF @ THEN FALSE ELSE @]
    ELSE in

\* pressureKeyPressedLast = pressureKeyPressed; speedKeyPressedLast = ...
KeysLast(in, pressureKeyPressed, speedKeyPressed) ==
    [in EXCEPT !.pressureKeyPressedLast = pressureKeyPressed,
               !.speedKeyPressedLast = speedKeyPressed]

\* processInput, the keys being the states glfwGetKey reports.
ProcessKeys(in, escape, space, pressureKeyPressed, speedKeyPressed) ==
    KeysLast(SpeedKey(PressureKey(SpaceKey(EscapeKey(in, escape), space),
                                  pressureKeyPressed),
                      speedKeyPressed),
             pressureKeyPressed, speedKeyPressed)

(***************************************************************************)
(* The state.                                                              *)
(***************************************************************************)
VARIABLES
    params,   \* <<nx, ny, nz, scale>> given to CreateGrid
    grid,     \* the Grille
    pc,       \* "idle", or the pass of CreateGrid / UpdateGrid being run
    call,     \* UpdateGrid's dt, pressure, speed and its const restDensity
    started,  \* per pass of the current call: the cells whose unit was begun
    log,      \* per pass: for each finished unit, what it read and wrote
    locals,   \* for each finished Force unit: its PA and its pressure terms
    entry,    \* the grid as it was when the current UpdateGrid call began
    avg,      \* the last ComputeAverageVelocity: its argument and result
    lastOp,   \* the call that returned last
    steps,    \* UpdateGrid calls made
    input     \* the globals of main.cpp that processInput keeps

vars == <<params, grid, pc, call, started, log, locals, entry, avg, lastOp, steps,
          input>>

SimPasses == <<"phase0", "phase1", "phase2", "phase3">>
PassNames == {"create", "phase0", "phase1", "phase2", "phase3"}

\* The units of a pass that ran to their end.
Done(pass) == DOMAIN log[pass]

\* The implicit barrier that ends an omp parallel region: the pass is left
\* when every unit of it has finished.
NoBarrier(pass) == Done(pass) # {}
PassComplete(pass) == Done(pass) = GridCells(grid)

NoPass == [ps \in PassNames |-> {}]
NoLog == [ps \in PassNames |-> <<>>]
NoCall == [dt |-> 0, pressure |-> FALSE, speed |-> FALSE, restDensity |-> 0]

\* The grids simulated: <<nx, ny, nz, scale>>.
SimParams ==
    {<<2, 1, 1, 2 * ONE>>, <<1, 2, 1, ONE>>, <<1, 1, 3, ONE>>}
\* The dt of a frame at 200 Hz, and a dt that overflows the float range.
DtValues == {50, 6000 * ONE}

\* The grids built unit by unit.
CreateParams == {1, 2} \X {1, 2} \X {1, 2} \X {(8 * ONE) \div 10, ONE, 2 * ONE}

Init ==
    /\ params \in SimParams
    /\ grid = CreateGrid(params[1], params[2], params[3], params[4])
    /\ pc = "idle"
    /\ call = NoCall
    /\ started = NoPass
    /\ log = NoLog
    /\ locals = <<>>
    /\ entry = grid
    /\ avg = [arg |-> grid, ret |-> ZeroVertex]
    /\ lastOp = "CreateGrid"
    /\ steps = 0
    /\ input = NoInput

(***************************************************************************)
(* UpdateGrid(dt, grid, pressure, speed).                                  *)
(***************************************************************************)
UpdateGridCall(dt, pressure, speed) ==
    /\ pc = "idle"
    /\ steps < MaxSteps
    /\ pc' = "phase0"
    /\ call' = [dt |-> dt, pressure |-> pressure, speed |-> speed,
                restDensity |-> RestDensity(grid)]
    /\ started' = NoPass
    /\ log' = NoLog
    /\ locals' = <<>>
    /\ entry' = grid
    /\ lastOp' = "running"
    /\ steps' = steps + 1
    /\ UNCHANGED <<input, params, grid, avg>>

\* A worker takes the unit of cell c of the current pass.
StartUnit(c) ==
    /\ pc \in PassNames
    /\ c \notin started[pc]
    /\ started' = [started EXCEPT ![pc] = @ \cup {c}]
    /\ UNCHANGED <<input, params, grid, pc, call, log, locals, entry, avg, lastOp, steps>>

\* The unit of cell c ends with the result u: what it computed is in the
\* grid.
Finish(c, u) ==
    /\ c \in started[pc] \ Done(pc)
    /\ grid' = u.grid
    /\ log' = [log EXCEPT ![pc] = (c :> [rd |-> u.rd, wr |-> u.wr]) @@ @]
    /\ UNCHANGED <<input, params, pc, call, started, entry, avg, lastOp, steps>>

Phase0(c) ==
    /\ pc = "phase0"
    /\ Finish(c, Phase0Unit(grid, c))
    /\ UNCHANGED locals

Density(c) ==
    /\ pc = "phase1"
    /\ Finish(c, DensityUnit(grid, c))
    /\ UNCHANGED locals

ForceEnd(c, u) ==
    /\ Finish(c, u)
    /\ locals' = (c :> [PA |-> u.PA, fp |-> u.fp]) @@ locals

Force(c) ==
    /\ pc = "phase2"
    /\ ForceEnd(c, ForceUnit(grid, c, call.restDensity, call.pressure, call.speed))

Integrate(c) ==
    /\ pc = "phase3"
    /\ Finish(c, IntegrateUnit(grid, c, call.dt, call.pressure, call.speed))
    /\ UNCHANGED locals

\* The end of a parallel region; after the last one UpdateGrid returns.
EndPass ==
    /\ \E n \in 1 .. 4 :
          /\ pc = SimPasses[n]
          /\ PassComplete(pc)
          /\ pc' = IF n < 4 THEN SimPasses[n + 1] ELSE "idle"
          /\ lastOp' = IF n < 4 THEN lastOp ELSE "UpdateGrid"
    /\ UNCHANGED <<input, params, grid, call, started, log, locals, entry, avg, steps>>

\* UpdateGrid run by one worker, every loop in index order: the units from
\* the k-th on, counted through the four passes.
UnitOf(gr, cl, pass, c) ==
    CASE pass = 1 -> Phase0Unit(gr, c)
      [] pass = 2 -> DensityUnit(gr, c)
      [] pass = 3 -> ForceUnit(gr, c, cl.restDensity, cl.pressure, cl.speed)
      [] pass = 4 -> IntegrateUnit(gr, c, cl.dt, cl.pressure, cl.speed)

RECURSIVE SeqRun(_, _, _)
SeqRun(gr, cl, k) ==
    IF k = 4 * GridN(gr) THEN gr
    ELSE SeqRun(UnitOf(gr, cl, 1 + k \div GridN(gr),
                       CellAt(k % GridN(gr), gr.ny, gr.nz)).grid,
                cl, k + 1)

UpdateGridSeq(gr, cl) == SeqRun(gr, cl, 0)

(***************************************************************************)
(* ComputeAverageVelocity(grid), called between two UpdateGrid calls.      *)
(***************************************************************************)
AverageReturn(u) ==
    /\ grid' = u.grid
    /\ avg' = [arg |-> grid, ret |-> u.ret]

AverageCall ==
    /\ pc = "idle"
    /\ AverageReturn(ComputeAverageVelocity(grid))
    /\ lastOp' = "ComputeAverageVelocity"
    /\ UNCHANGED <<input, params, pc, call, started, log, locals, entry, steps>>

Next ==
    \/ \E dt \in DtValues, pressure \in BOOLEAN, speed \in BOOLEAN :
          UpdateGridCall(dt, pressure, speed)
    \/ \E c \in GridCells(grid) : StartUnit(c)
    \/ \E c \in GridCells(grid) : Phase0(c)
    \/ \E c \in GridCells(grid) : Density(c)
    \/ \E c \in GridCells(grid) : Force(c)
    \/ \E c \in GridCells(grid) : Integrate(c)
    \/ EndPass
    \/ AverageCall

Spec == Init /\ [][Next]_vars

(***************************************************************************)
(* CreateGrid, its parallel loop run unit by unit.                         *)
(***************************************************************************)
InitCreate ==
    /\ params \in CreateParams
    /\ grid = ResizeVertices(Grille(params[1], params[2], params[3]),
                             params[1] * params[2] * params[3])
    /\ pc = "create"
    /\ call = NoCall
    /\ started = NoPass
    /\ log = NoLog
    /\ locals = <<>>
    /\ entry = grid
    /\ avg = [arg |-> grid, ret |-> ZeroVertex]
    /\ lastOp = "running"
    /\ steps = 0
    /\ input = NoInput

Create(c) ==
    /\ pc = "create"
    /\ c \in started[pc] \ Done(pc)
    /\ grid' = CreateUnit(grid, c, params[4])
    /\ log' = [log EXCEPT ![pc] =
                 (c :> [rd |-> {}, wr |-> PosLocs(Id(grid, c)) \cup ColLocs(Id(grid, c))]) @@ @]
    /\ UNCHANGED <<input, params, pc, call, started, locals, entry, avg, lastOp, steps>>

\* The end of the parallel region: CreateGrid returns the grid.
EndCreate ==
    /\ pc = "create"
    /\ PassComplete(pc)
    /\ pc' = "idle"
    /\ lastOp' = "CreateGrid"
    /\ UNCHANGED <<input, params, grid, call, started, log, locals, entry, avg, steps>>

NextCreate ==
    \/ \E c \in GridCells(grid) : StartUnit(c)
    \/ \E c \in GridCells(grid) : Create(c)
    \/ EndCreate

SpecCreate == InitCreate /\ [][NextCreate]_vars

(***************************************************************************)
(* main: the frame loop.  Each frame runs processInput, then UpdateGrid    *)
(* with the globals pressure and speed if simulation is set, then          *)
(* ComputeAverageVelocity; the loop ends once the window should close.     *)
(***************************************************************************)
\* deltaTime of a frame.
FrameDts == {50}
\* Grille grid = CreateGrid(...);
MainParams == {<<1, 2, 1, ONE>>}

InitMain ==
    /\ Init
    /\ params \in MainParams

ProcessInput(escape, space, pressureKeyPressed, speedKeyPressed) ==
    /\ pc = "idle"
    /\ lastOp \in {"CreateGrid", "ComputeAverageVelocity"}
    /\ ~input.shouldClose
    /\ input' = ProcessKeys(input, escape, space, pressureKeyPressed, speedKeyPressed)
    /\ lastOp' = "processInput"
    /\ UNCHANGED <<params, grid, pc, call, started, log, locals, entry, avg, steps>>

\* if(simulation) UpdateGrid(deltaTime, grid, pressure, speed);
FrameUpdate ==
    /\ lastOp = "processInput"
    /\ input.simulation
    /\ \E dt \in FrameDts : UpdateGridCall(dt, input.pressure, input.speed)

\* Vertex v = ComputeAverageVelocity(grid);
FrameAverage ==
    /\ lastOp = "UpdateGrid" \/ (lastOp = "processInput" /\ ~input.simulation)
    /\ AverageCall

NextMain ==
    \/ \E escape \in BOOLEAN, space \in BOOLEAN,
          pressureKeyPressed \in BOOLEAN, speedKeyPressed \in BOOLEAN :
          ProcessInput(escape, space, pressureKeyPressed, speedKeyPressed)
    \/ FrameUpdate
    \/ \E c \in GridCells(grid) : StartUnit(c)
    \/ \E c \in GridCells(grid) : Phase0(c)
    \/ \E c \in GridCells(grid) : Density(c)
    \/ \E c \in GridCells(grid) : Force(c)
    \/ \E c \in GridCells(grid) : Integrate(c)
    \/ EndPass
    \/ FrameAverage

SpecMain == InitMain /\ [][NextMain]_vars

(***************************************************************************)
(* Properties.                                                             *)
(***************************************************************************)
Ids == DOMAIN grid.vertices

\* A position inside [min + epsilon, max - epsilon] on the three axes.
Contained(v) ==
    /\ Le(Add(minX, epsilon), v.x) /\ Le(v.x, Sub(maxX, epsilon))
    /\ Le(Add(minY, epsilon), v.y) /\ Le(v.y, Sub(maxY, epsilon))
    /\ Le(Add(minZ, epsilon), v.z) /\ Le(v.z, Sub(maxZ, epsilon))

\* C1: once an UpdateGrid call has returned, every particle's position is
\* within [min + epsilon, max - epsilon] on the three axes.
C1_Containment ==
    (pc = "idle" /\ steps > 0) => \A n \in Ids : Contained(grid.vertices[n])

\* C2: the vertex sequence has nx*ny*nz entries and every field of the
\* Grille is dimensioned nx x ny x nz, in every state from CreateGrid on.
C2_Population ==
    /\ <<grid.nx, grid.ny, grid.nz>> = <<params[1], params[2], params[3]>>
    /\ DOMAIN grid.vertices = 0 .. params[1] * params[2] * params[3] - 1
    /\ \A f \in {grid.vx, grid.vy, grid.vz, grid.ax, grid.ay, grid.az,
                 grid.pressure, grid.div} :
          DOMAIN f = Cells(params[1], params[2], params[3])

C2_Witness ==
    /\ pc = "idle" /\ steps >= 2 /\ lastOp = "ComputeAverageVelocity"
    /\ \E c \in GridCells(grid) : grid.vy[c] # 0

\* C3: with pressure = speed = false, the grid UpdateGrid leaves is the one
\* a single worker running every loop in index order leaves, whatever the
\* order in which the units of each pass were started and finished.
C3_Deterministic ==
    (lastOp = "UpdateGrid" /\ ~call.pressure /\ ~call.speed)
        => grid = UpdateGridSeq(entry, call)

C3_Witness ==
    /\ lastOp = "UpdateGrid" /\ ~call.pressure /\ ~call.speed /\ steps >= 2
    /\ \E c \in DOMAIN locals : locals[c].fp # <<>>
    /\ \E c \in GridCells(grid) : entry.vz[c] # 0

\* Whether the particles of cells a and b are at a distance r, 0 < r <= h.
InRange(gr, a, b) ==
    LET r == Distance(Sub(gr.vertices[Id(gr, b)].x, gr.vertices[Id(gr, a)].x),
                      Sub(gr.vertices[Id(gr, b)].y, gr.vertices[Id(gr, a)].y),
                      Sub(gr.vertices[Id(gr, b)].z, gr.vertices[Id(gr, a)].z))
    IN  Gt(r, 0) /\ Le(r, h)

NegVec(t) == <<Neg(t[1]), Neg(t[2]), Neg(t[3])>>

\* C4: for two particles at distance 0 < r <= h, the pressure term added to
\* the acceleration of one by its Force unit is the opposite of the term
\* added to the acceleration of the other by its own.
C4_ThirdLaw ==
    \A a \in DOMAIN locals, b \in DOMAIN locals :
        (a # b /\ InRange(entry, a, b))
            => /\ b \in DOMAIN locals[a].fp
               /\ a \in DOMAIN locals[b].fp
               /\ locals[a].fp[b] = NegVec(locals[b].fp[a])

C4_Witness ==
    \E a \in DOMAIN locals, b \in DOMAIN locals :
        /\ a # b /\ InRange(entry, a, b)
        /\ grid.div[a] # grid.div[b]
        /\ locals[a].fp[b] # <<0, 0, 0>>

\* C5: CreateGrid(nx, ny, nz, scale) leaves the particle of the lattice
\* coordinate (i,j,k) at index i*(ny*nz) + j*nz + k, at the position
\* (i*scale, j*scale + 5, k*scale); the indices are distinct and cover
\* 0..N-1; CreateGrid(2,2,2,1.0) places (1,1,1) at (1,6,1).
C5_Lattice ==
    lastOp = "CreateGrid" =>
        LET index(c) == c[1] * (params[2] * params[3]) + c[2] * params[3] + c[3]
            lattice  == Cells(params[1], params[2], params[3])
        IN  /\ \A c \in lattice :
                  /\ grid.vertices[index(c)].x = c[1] * params[4]
                  /\ grid.vertices[index(c)].y = c[2] * params[4] + 5 * ONE
                  /\ grid.vertices[index(c)].z = c[3] * params[4]
            /\ {index(c) : c \in lattice} = 0 .. params[1] * params[2] * params[3] - 1
            /\ \A c \in lattice, d \in lattice : index(c) = index(d) => c = d
            /\ params = <<2, 2, 2, ONE>> =>
                  /\ grid.vertices[7].x = ONE
                  /\ grid.vertices[7].y = 6 * ONE
                  /\ grid.vertices[7].z = ONE

C5_Witness ==
    /\ lastOp = "CreateGrid" /\ params = <<2, 2, 2, ONE>>
    /\ Done("create") = GridCells(grid)

\* No other particle within the radius h of the particle of cell c.
Isolated(gr, c) == \A b \in GridCells(gr) \ {c} : ~InRange(gr, c, b) /\
    gr.vertices[Id(gr, b)] # gr.vertices[Id(gr, c)]

\* C6: a particle with no other particle within h has density 0 and its
\* Force unit computes the pressure -stiffness * restDensity, restDensity
\* being (domain volume) / N for the whole call.
C6_Isolated ==
    \A c \in DOMAIN locals :
        Isolated(entry, c)
            => /\ grid.div[c] = 0
               /\ locals[c].PA = -((stiffness \div 2000) * call.restDensity) \div 5
               /\ call.restDensity = (20 * 60 * 20 * ONE) \div GridN(grid)

C6_Witness ==
    \E c \in DOMAIN locals :
        /\ Isolated(entry, c) /\ GridN(grid) > 1
        /\ \A b \in GridCells(grid) : IsFinite(entry.vertices[Id(grid, b)].x)

\* The sum of the values the function f takes on the set S of its domain.
RECURSIVE SumOver(_, _)
SumOver(f, S) ==
    IF S = {} THEN 0
    ELSE LET c == CHOOSE c \in S : TRUE IN f[c] + SumOver(f, S \ {c})

\* The mean of the field f: its sum over the cells, divided by their number.
MeanOf(f) ==
    IF \/ \E c \in DOMAIN f : IsNaN(f[c])
       \/ (\E c \in DOMAIN f : f[c] = INF) /\ (\E c \in DOMAIN f : f[c] = -INF)
    THEN NAN
    ELSE IF \E c \in DOMAIN f : f[c] = INF THEN INF
    ELSE IF \E c \in DOMAIN f : f[c] = -INF THEN -INF
    ELSE IF SumOver(f, DOMAIN f) >= 0
         THEN SumOver(f, DOMAIN f) \div Cardinality(DOMAIN f)
         ELSE -((-SumOver(f, DOMAIN f)) \div Cardinality(DOMAIN f))

\* C7: ComputeAverageVelocity leaves the grid as it found it and returns,
\* on each axis, the sum of the velocities divided by N; that is (0,0,0)
\* on a grid on which no UpdateGrid has run.
C7_AverageReadOnly ==
    lastOp = "ComputeAverageVelocity" =>
        /\ grid = avg.arg
        /\ <<avg.ret.x, avg.ret.y, avg.ret.z>>
              = <<MeanOf(grid.vx), MeanOf(grid.vy), MeanOf(grid.vz)>>
        /\ steps = 0 => <<avg.ret.x, avg.ret.y, avg.ret.z>> = <<0, 0, 0>>

C7_Witness ==
    /\ lastOp = "ComputeAverageVelocity" /\ steps > 0
    /\ IsFinite(avg.ret.y) /\ avg.ret.y # 0
    /\ \E c \in GridCells(grid) : grid.vy[c] # avg.ret.y

\* C8: no unit of a pass of UpdateGrid starts before every unit of the
\* pass before it has finished: the reset before the force accumulation,
\* the densities before the Force pass, the accelerations before the
\* Integration pass.
C8_Barriers ==
    \A k \in 1 .. Len(SimPasses) - 1 :
        started[SimPasses[k + 1]] # {} =>
            /\ Done(SimPasses[k]) = GridCells(grid)
            /\ started[SimPasses[k]] = GridCells(grid)

C8_Witness ==
    /\ pc = "phase2"
    /\ started["phase2"] # {}
    /\ started["phase2"] \ Done("phase2") # {}
    /\ Done("phase2") # {}

\* The slots of the particle of cell p, and the slots of one kind.
OwnLocs(gr, p) ==
    PosLocs(Id(gr, p)) \cup ColLocs(Id(gr, p)) \cup VelLocs(p) \cup AccLocs(p)
        \cup {<<"div", p>>}
AllPos(gr) == UNION {PosLocs(n) : n \in DOMAIN gr.vertices}
AllVel(gr) == UNION {VelLocs(c) : c \in GridCells(gr)}
AllDiv(gr) == {<<"div", c>> : c \in GridCells(gr)}

\* C9: in every pass of UpdateGrid the unit of particle p writes only the
\* slots of p, no two units write the same location, no unit reads a
\* location another unit of the pass writes; Density reads only positions,
\* Force reads of the other particles only positions, densities and
\* velocities, Integration reads only the slots of its own particle.
C9_RaceFree ==
    \A k \in 1 .. Len(SimPasses) : \A p \in Done(SimPasses[k]) :
        LET u == log[SimPasses[k]][p] IN
        /\ u.wr \subseteq OwnLocs(grid, p)
        /\ \A q \in Done(SimPasses[k]) \ {p} :
              /\ u.wr \cap log[SimPasses[k]][q].wr = {}
              /\ u.rd \cap log[SimPasses[k]][q].wr = {}
        /\ SimPasses[k] = "phase1" => u.rd \subseteq AllPos(grid)
        /\ SimPasses[k] = "phase2" =>
              u.rd \ OwnLocs(grid, p)
                  \subseteq AllPos(grid) \cup AllDiv(grid) \cup AllVel(grid)
        /\ SimPasses[k] = "phase3" => u.rd \subseteq OwnLocs(grid, p)

C9_Witness ==
    /\ pc = "phase2" /\ Cardinality(Done("phase2")) >= 2
    /\ \E p \in Done("phase2") : \E q \in GridCells(grid) \ {p} :
          /\ VelLocs(q) \subseteq log["phase2"][p].rd
          /\ log["phase2"][p].wr # {}

\* C10: the colour UpdateGrid leaves on a particle is the speed gradient
\* when speed is set, whatever pressure is; the pressure gradient when
\* only pressure is set; the blue (0,0,1) when neither is.
C10_ColourPrecedence ==
    lastOp = "UpdateGrid" =>
        \A c \in GridCells(grid) :
            LET v == grid.vertices[Id(grid, c)] IN
            <<v.r, v.g, v.b>> =
                IF call.speed
                THEN LET t == VNorm(grid.vx[c], grid.vy[c], grid.vz[c])
                     IN  <<t, Mul(2000, Sub(ONE, t)), Sub(ONE, t)>>
                ELSE IF call.pressure
                THEN LET t == Pnorm(Pressure(grid.div[c], call.restDensity),
                                    call.restDensity)
                     IN  <<t, Mul(2000, Sub(ONE, t)), Sub(ONE, t)>>
                ELSE <<0, 0, ONE>>

C10_Witness ==
    /\ lastOp = "UpdateGrid" /\ call.speed /\ call.pressure
    /\ \E c \in GridCells(grid) :
          /\ grid.vertices[Id(grid, c)].r
                # Pnorm(Pressure(grid.div[c], call.restDensity), call.restDensity)
          /\ grid.vertices[Id(grid, c)].r \notin {0, ONE}

\* The velocity and the position of one axis as the Integration unit of a
\* particle updates them, before its clamp: v + a * dt and p + (v + a * dt) * dt.
UpdatedV(v, a) == Add(v, Mul(a, call.dt))
UpdatedP(p, v, a) == Add(p, Mul(UpdatedV(v, a), call.dt))

\* What the clamp of one axis has to leave: p0, v0, a are the position and
\* the velocity on entry and the acceleration, p1 and v1 what the unit left.
Reflected(p0, v0, a, p1, v1, lo, hi) ==
    /\ Lt(UpdatedP(p0, v0, a), Add(lo, epsilon)) =>
          /\ p1 = Add(lo, epsilon)
          /\ v1 = Mul(Neg(UpdatedV(v0, a)), wallDamping)
          /\ Gt(v1, 0) \/ v1 = 0
    /\ Gt(UpdatedP(p0, v0, a), Sub(hi, epsilon)) =>
          /\ p1 = Sub(hi, epsilon)
          /\ v1 = Mul(Neg(UpdatedV(v0, a)), wallDamping)
          /\ Lt(v1, 0) \/ v1 = 0

\* C11: a particle the Integration pass clamps on an axis is left at the
\* bound, min + epsilon or max - epsilon, with the velocity of that axis
\* -wallDamping times its updated value, and that velocity points away
\* from the wall that was hit or is zero.
C11_WallReflection ==
    \A c \in Done("phase3") :
        /\ Reflected(entry.vertices[Id(grid, c)].x, entry.vx[c], grid.ax[c],
                     grid.vertices[Id(grid, c)].x, grid.vx[c], minX, maxX)
        /\ Reflected(entry.vertices[Id(grid, c)].y, entry.vy[c], grid.ay[c],
                     grid.vertices[Id(grid, c)].y, grid.vy[c], minY, maxY)
        /\ Reflected(entry.vertices[Id(grid, c)].z, entry.vz[c], grid.az[c],
                     grid.vertices[Id(grid, c)].z, grid.vz[c], minZ, maxZ)

\* C12: the flags of main.cpp are never both set, so no UpdateGrid call of
\* the frame loop gets pressure and speed both true; and a flag changes
\* only in a processInput that sees the R or the E key pressed after having
\* seen it released, never while the key stays down.
C12_Exclusive ==
    /\ ~(input.pressure /\ input.speed)
    /\ pc # "idle" => /\ ~(call.pressure /\ call.speed)
                      /\ <<call.pressure, call.speed>> = <<input.pressure, input.speed>>

C12_EdgeOnly ==
    [][(input'.pressure # input.pressure \/ input'.speed # input.speed)
          => \/ input'.pressureKeyPressedLast /\ ~input.pressureKeyPressedLast
             \/ input'.speedKeyPressedLast /\ ~input.speedKeyPressedLast]_vars

C12_FlagExclusivity == []C12_Exclusive /\ C12_EdgeOnly

C12_Witness ==
    /\ lastOp = "UpdateGrid" /\ steps >= 2
    /\ call.speed /\ ~call.pressure
    /\ entry.vertices[0].b # ONE
    /\ input.pressureKeyPressedLast /\ input.speedKeyPressedLast

====
